---- MODULE Spec2Model ----
(***************************************************************************)
(* The subscription catalog of luna-service2 (src/src/subscription.c):     *)
(* the token map, the subscription lists, reference-counted _Subscription  *)
(* objects, the disconnect watches, and the threads that call into the     *)
(* catalog.  A step of the model is one critical section of the code (the  *)
(* code between _CatalogLock and _CatalogUnlock) or one unlocked access to *)
(* a _Subscription through a handle.                                       *)
(***************************************************************************)
EXTENDS Integers, Sequences, FiniteSets, TLC

\* ------------------------------------------------------------- bounds
\* _Subscription objects ever allocated in one behaviour.
MaxSubs == 2
\* Message serial numbers (LSMessageToken) range over 1..MaxToken.
MaxToken == 2
\* Nested API calls of one thread (a call made from the cancel callback).
MaxDepth == 2

\* ---------------------------------------------------------- constants
\* The n of strncmp(tok, data, n) in _SubListRemove and _SubListContains.
TokenCmpLen == 50

Threads == {"t1", "t2"}
NoThread == "none"
Keys == {"k1", "k2"}
Tokens == 1..MaxToken

\* Strings are sequences of one-character strings.
ShortSender == <<"a">>
LongSender == [i \in 1..TokenCmpLen |-> "x"]
Senders == {ShortSender, LongSender}

\* An LSMessage is identified by its sender and its serial number.
Messages == [sender : Senders, token : Tokens]

\* ------------------------------------------------------------ strings
DigitChar(d) == CASE d = 0 -> "0" [] d = 1 -> "1" [] d = 2 -> "2" [] d = 3 -> "3"
                  [] d = 4 -> "4" [] d = 5 -> "5" [] d = 6 -> "6" [] d = 7 -> "7"
                  [] d = 8 -> "8" [] OTHER -> "9"

RECURSIVE Decimal(_)
\* printf's %d / %ld of a non-negative number.
Decimal(n) == IF n < 10 THEN <<DigitChar(n)>>
              ELSE Decimal(n \div 10) \o <<DigitChar(n % 10)>>

\* g_strdup_printf("%s.%d", sender, token)
FormatToken(sender, n) == sender \o <<".">> \o Decimal(n)

\* LSMessageGetUniqueToken(message)
LSMessageGetUniqueToken(m) == FormatToken(m.sender, m.token)

Prefix(s, n) == SubSeq(s, 1, IF Len(s) < n THEN Len(s) ELSE n)

\* strncmp(a, b, n) == 0
StrNEq(a, b, n) == Prefix(a, n) = Prefix(b, n)

\* strcmp(a, b) == 0
StrEq(a, b) == a = b

\* Every identifier a message of the model can have.
Identifiers == {LSMessageGetUniqueToken(m) : m \in Messages}

\* ---------------------------------------------------------- _SubList
\* The least index of tokens whose entry matches data, 0 when none does.
SubListFind(tokens, data) ==
    LET hits == {i \in 1..Len(tokens) : StrNEq(tokens[i], data, TokenCmpLen)}
    IN  IF hits = {} THEN 0 ELSE CHOOSE i \in hits : \A j \in hits : i <= j

SubListContains(tokens, data) == SubListFind(tokens, data) # 0

SubListRemove(tokens, data) ==
    LET i == SubListFind(tokens, data)
    IN  IF i = 0 THEN tokens
        ELSE SubSeq(tokens, 1, i - 1) \o SubSeq(tokens, i + 1, Len(tokens))

SubListAdd(tokens, data) == Append(tokens, data)

\* _SubListDup whose loop stops one entry early: a fault that C12 must
\* tell from SubListDup.
SubListDupShort(src) == [i \in 1..(Len(src) - 1) |-> src[i]]

SubListDup(src) == [i \in 1..Len(src) |-> src[i]]

\* g_char_ptr_array_contains(array, data)
CharPtrArrayContains(array, data) == \E i \in 1..Len(array) : StrEq(array[i], data)

SeqSet(s) == {s[i] : i \in 1..Len(s)}

\* -------------------------------------------------------------- state
VARIABLES
    token_map,           \* _Catalog.token_map: identifier -> _Subscription
    subscription_lists,  \* _Catalog.subscription_lists: key -> _SubList
    cancel_function,     \* _Catalog.cancel_function is set
    lock,                \* the thread holding _Catalog.lock, or NoThread
    heap,                \* the _Subscription objects allocated so far
    msgRef,              \* references the catalog side holds on each LSMessage
    watches,             \* the server status watches that are armed
    stack,               \* each thread's calls in progress, innermost last
    crashed              \* undefined behaviour happened (use after free, NULL)

vars == <<token_map, subscription_lists, cancel_function, lock, heap, msgRef,
          watches, stack, crashed>>

\* The shared data the catalog's functions read and write.
World == [token_map |-> token_map, subscription_lists |-> subscription_lists,
          heap |-> heap, msgRef |-> msgRef, watches |-> watches]

SetWorld(w) ==
    /\ token_map' = w.token_map
    /\ subscription_lists' = w.subscription_lists
    /\ heap' = w.heap
    /\ msgRef' = w.msgRef
    /\ watches' = w.watches

\* g_hash_table_new_full: a map with no entry.
EmptyMap == [x \in {} |-> 0]

\* A map without one of its keys (g_hash_table_remove).
MapRemove(f, k) == [x \in DOMAIN f \ {k} |-> f[x]]

\* A map with k bound to v (g_hash_table_replace).
MapReplace(f, k, v) == [x \in DOMAIN f \cup {k} |-> IF x = k THEN v ELSE f[x]]

\* ------------------------------------------------------ _Subscription
\* struct _Subscription; freed, cancelled and over are bookkeeping of the
\* model: freed once g_free(subs) ran (the other fields then hold what the
\* memory last held), cancelled counts the cancel callbacks run on its
\* message, over is the set of freed objects whose memory this one may
\* occupy.
NewSubscription(m, watch) ==
    [message |-> m, keys |-> <<>>, serverStatusWatch |-> watch, ref |-> 1,
     freed |-> FALSE, cancelled |-> 0, over |-> {}]

\* _SubscriptionNew when LSCall succeeds: the new object is heap[Len(heap)].
\* g_new0 may hand out the memory of any _Subscription freed before: over
\* names those.
SubscriptionNew(w, m) ==
    LET id == Len(w.heap) + 1
        over == {s \in DOMAIN w.heap : w.heap[s].freed}
    IN  [w EXCEPT !.heap = Append(@, [NewSubscription(m, id)
                                         EXCEPT !.over = over]),
                  !.msgRef[m] = @ + 1,
                  !.watches = @ \cup {id}]

SubscriptionFree(w, s) ==
    LET sub == w.heap[s]
    IN  [w EXCEPT !.msgRef[sub.message] = @ - 1,
                  !.watches = IF sub.serverStatusWatch # 0
                              THEN @ \ {sub.serverStatusWatch} ELSE @,
                  !.heap[s].freed = TRUE]

\* _SubscriptionAcquire: the world after it and the handle (0 for NULL).
SubscriptionAcquire(w, uniqueToken) ==
    IF uniqueToken \in DOMAIN w.token_map
    THEN LET s == w.token_map[uniqueToken]
         IN  [w |-> [w EXCEPT !.heap[s].ref = @ + 1], subs |-> s]
    ELSE [w |-> w, subs |-> 0]

SubscriptionRelease(w, s) ==
    IF s = 0 THEN w
    ELSE LET w1 == [w EXCEPT !.heap[s].ref = @ - 1]
         IN  IF w1.heap[s].ref = 0 THEN SubscriptionFree(w1, s) ELSE w1

\* _SubscriptionRemove that leaves the entry in the token map: a fault that
\* C10 must tell from Unindex.
UnindexSkipped(w, token) == w

\* _SubscriptionRemove's critical section.
Unindex(w, token) == [w EXCEPT !.token_map = MapRemove(@, token)]

\* ----------------------------------------------------------- _Catalog
\* _CatalogAdd between _CatalogLock and _CatalogUnlock; callOk is whether
\* the LSCall that arms the server status watch succeeds.
CatalogAdd(w, key, m, callOk) ==
    LET token == LSMessageGetUniqueToken(m)
        w1 == IF key \in DOMAIN w.subscription_lists THEN w
              ELSE [w EXCEPT !.subscription_lists = MapReplace(@, key, <<>>)]
        found == token \in DOMAIN w1.token_map
        w2 == IF found THEN w1
              ELSE [SubscriptionNew(w1, m) EXCEPT
                       !.token_map = MapReplace(@, token, Len(w1.heap) + 1)]
        subs == w2.token_map[token]
        list == w2.subscription_lists[key]
        w3 == IF SubListContains(list, token) THEN w2
              ELSE [w2 EXCEPT !.subscription_lists[key] = SubListAdd(@, token)]
        w4 == IF CharPtrArrayContains(w3.heap[subs].keys, key) THEN w3
              ELSE [w3 EXCEPT !.heap[subs].keys = Append(@, key)]
    IN  IF ~found /\ ~callOk THEN [w |-> w1, ret |-> FALSE]
        ELSE [w |-> w4, ret |-> TRUE]

\* One round of _CatalogRemoveToken's loop, for the key subs->keys[i].
StripKey(w, key, token) ==
    IF key \notin DOMAIN w.subscription_lists THEN w
    ELSE LET list == SubListRemove(w.subscription_lists[key], token)
         IN  IF Len(list) = 0
             THEN [w EXCEPT !.subscription_lists = MapRemove(@, key)]
             ELSE [w EXCEPT !.subscription_lists[key] = list]

RECURSIVE StripFrom(_, _, _, _)
StripFrom(w, keys, i, token) ==
    IF i > Len(keys) THEN w
    ELSE StripFrom(StripKey(w, keys[i], token), keys, i + 1, token)

\* The loop stopped after its first round, so that only the list of the
\* first key is stripped: a fault that C20 must tell from StripLists.
StripListsFirstKey(w, s, token) ==
    IF w.heap[s].keys = <<>> THEN w ELSE StripKey(w, w.heap[s].keys[1], token)

\* _CatalogRemoveToken's first critical section: the loop over subs->keys.
StripLists(w, s, token) == StripFrom(w, w.heap[s].keys, 1, token)

\* The cancel callback is called with subs->message.
NoteCancel(w, s) == [w EXCEPT !.heap[s].cancelled = @ + 1]

\* --------------------------------------------------------------- JSON
\* A JSON value as json-c holds it: its type and its content.
JAbsent == [type |-> "absent", num |-> 0, str |-> <<>>]
JNull == [type |-> "null", num |-> 0, str |-> <<>>]
JInt(n) == [type |-> "int", num |-> n, str |-> <<>>]
JBool(b) == [type |-> "boolean", num |-> IF b THEN 1 ELSE 0, str |-> <<>>]
JStr(s) == [type |-> "string", num |-> 0, str |-> s]

DigitValue(c) == CASE c = "0" -> 0 [] c = "1" -> 1 [] c = "2" -> 2 [] c = "3" -> 3
                   [] c = "4" -> 4 [] c = "5" -> 5 [] c = "6" -> 6 [] c = "7" -> 7
                   [] c = "8" -> 8 [] c = "9" -> 9 [] OTHER -> -1

RECURSIVE ParseDigits(_, _)
\* The number the leading digits of s spell, after acc.
ParseDigits(s, acc) ==
    IF s = <<>> \/ DigitValue(Head(s)) < 0 THEN acc
    ELSE ParseDigits(Tail(s), acc * 10 + DigitValue(Head(s)))

\* json_object_get_int(obj): an int as it is, a boolean as 0 or 1, a string
\* parsed as a number, anything else 0.
JsonGetInt(j) ==
    CASE j.type = "int" -> j.num
      [] j.type = "boolean" -> j.num
      [] j.type = "string" -> ParseDigits(j.str, 0)
      [] OTHER -> 0

\* json_object_get_boolean(obj)
JsonGetBoolean(j) ==
    CASE j.type = "boolean" -> j.num # 0
      [] j.type = "int" -> j.num # 0
      [] j.type = "string" -> Len(j.str) # 0
      [] OTHER -> FALSE

\* json_object_get_string(obj)
JsonGetString(j) == j.str

\* A payload: whether json_tokener_parse accepts it and the fields of the
\* object it parses to (JAbsent for a field the object does not have).
Payload(parsed, token, connected, serviceName) ==
    [parsed |-> parsed, token |-> token, connected |-> connected,
     serviceName |-> serviceName, subscribe |-> JAbsent]

Unparsable == Payload(FALSE, JAbsent, JAbsent, JAbsent)

\* The payload of a method call: whether it parses, and its "subscribe".
ProcessPayload(parsed, subscribe) ==
    [Payload(parsed, JAbsent, JAbsent, JAbsent) EXCEPT !.subscribe = subscribe]

\* The payloads of the method calls LSSubscriptionProcess is given.
ProcessPayloads ==
    {ProcessPayload(FALSE, JAbsent), ProcessPayload(TRUE, JAbsent),
     ProcessPayload(TRUE, JBool(FALSE)), ProcessPayload(TRUE, JBool(TRUE))}

\* The payloads of the cancel messages a client can send.
CancelPayloads ==
    {Unparsable} \cup
    {Payload(TRUE, v, JAbsent, JAbsent) :
        v \in {JAbsent, JNull, JStr(<<"1">>)} \cup {JInt(n) : n \in Tokens}}

\* The payloads of the server status notifications about service.
StatusPayloads(service) ==
    {Unparsable,
     Payload(TRUE, JAbsent, JAbsent, JStr(service)),
     Payload(TRUE, JAbsent, JBool(FALSE), JAbsent),
     Payload(TRUE, JAbsent, JBool(TRUE), JStr(service)),
     Payload(TRUE, JAbsent, JBool(FALSE), JStr(service))}

\* ------------------------------------------------------------- frames
NoMessage == [sender |-> <<>>, token |-> 0]
NoPayload == Payload(FALSE, JAbsent, JAbsent, JAbsent)

\* One call in progress: the function (kind), where it is (pc), and its
\* parameters and locals.  An "iter" frame is an LSSubscriptionIter from its
\* LSSubscriptionAcquire to its LSSubscriptionRelease, with the locals of the
\* call made on it.
Frame ==
    [kind |-> "", pc |-> "", sender |-> <<>>, ctx |-> 0, payload |-> NoPayload,
     token |-> <<>>, notify |-> FALSE, subs |-> 0, outer |-> 0,
     key |-> "", hasTokens |-> FALSE, tokens |-> <<>>, index |-> -1,
     seen |-> <<>>, i |-> 0, ok |-> FALSE, msg |-> NoMessage,
     snap |-> EmptyMap, subscribed |-> FALSE]

Depth(t) == Len(stack[t])
Top(t) == stack[t][Depth(t)]
\* The thread is at pc in its innermost call, and the program still runs.
At(t, pc) == IF crashed \/ Depth(t) = 0 THEN FALSE ELSE Top(t).pc = pc

Push(t, f) == stack' = [stack EXCEPT ![t] = Append(@, f)]
SetTop(t, f) == stack' = [stack EXCEPT ![t] = [@ EXCEPT ![Len(@)] = f]]
Pop(t) == stack' = [stack EXCEPT ![t] = SubSeq(@, 1, Len(@) - 1)]

\* The thread may call into the catalog: from its top level or from the
\* cancel callback, to the given depth of calls.
CanCall(t, depth) ==
    /\ ~crashed
    /\ Depth(t) < depth
    /\ IF Depth(t) = 0 THEN TRUE ELSE Top(t).pc = "callback"

Unlocked == lock = NoThread

\* Where _CatalogRemoveToken returns to, by its caller.
AfterRemove(f) ==
    CASE f.kind = "cancel" -> [f EXCEPT !.pc = "ret", !.ok = TRUE]
      [] f.kind = "down" -> [f EXCEPT !.pc = "down_release"]
      [] OTHER -> [f EXCEPT !.pc = "idle", !.subs = 0, !.token = <<>>]

Init ==
    /\ token_map = EmptyMap
    /\ subscription_lists = EmptyMap
    /\ cancel_function = FALSE
    /\ lock = NoThread
    /\ heap = <<>>
    /\ msgRef = [m \in Messages |-> 0]
    /\ watches = {}
    /\ stack = [t \in Threads |-> <<>>]
    /\ crashed = FALSE

\* ------------------------------------------------- cancel and disconnect
\* _CatalogHandleCancel rejects the payload: it does not parse or it has no
\* "token" field.
CancelRejected(payload) == ~payload.parsed \/ payload.token = JAbsent

\* _CatalogHandleCancel: token = json_object_get_int(tokenObj);
\* uniqueToken = g_strdup_printf("%s.%d", sender, token).
CancelToken(sender, payload) == FormatToken(sender, JsonGetInt(payload.token))

\* _subscriber_down drops the notification: it does not parse, it lacks
\* "connected" or "serviceName", or it reports the service connected.
StatusIgnored(payload) ==
    \/ ~payload.parsed
    \/ payload.connected = JAbsent
    \/ payload.serviceName = JAbsent
    \/ JsonGetBoolean(payload.connected)

\* The identifier built from the service name and the token with no "."
\* between them: a fault that C8 must tell from DownToken.
DownTokenUndotted(payload, ctx) ==
    JsonGetString(payload.serviceName) \o Decimal(ctx)

\* _subscriber_down: g_strdup_printf("%s.%ld", serviceName, token), token
\* being the ctx the watch was armed with.
DownToken(payload, ctx) == FormatToken(JsonGetString(payload.serviceName), ctx)

\* _CatalogRemoveToken run from start to end with no other thread's step
\* in between and a cancel callback that does not call the catalog; cf is
\* catalog->cancel_function.
RunRemoveToken(w, cf, token, notify) ==
    LET a == SubscriptionAcquire(w, token)
    IN  IF a.subs = 0 THEN [w |-> w, found |-> FALSE]
        ELSE LET w1 == IF notify /\ cf THEN NoteCancel(a.w, a.subs) ELSE a.w
                 w2 == StripLists(w1, a.subs, token)
                 w3 == Unindex(w2, token)
                 w4 == SubscriptionRelease(w3, a.subs)
                 w5 == SubscriptionRelease(w4, a.subs)
             IN  [w |-> w5, found |-> TRUE]

\* _CatalogHandleCancel run from start to end, likewise.
RunHandleCancel(w, cf, sender, payload) ==
    IF CancelRejected(payload) THEN [w |-> w, ret |-> FALSE]
    ELSE [w |-> RunRemoveToken(w, cf, CancelToken(sender, payload), TRUE).w,
          ret |-> TRUE]

\* _subscriber_down run from start to end, likewise.
RunSubscriberDown(w, cf, ctx, payload) ==
    IF StatusIgnored(payload) THEN [w |-> w, ret |-> TRUE]
    ELSE LET token == DownToken(payload, ctx)
             a == SubscriptionAcquire(w, token)
         IN  IF a.subs = 0 THEN [w |-> w, ret |-> TRUE]
             ELSE [w |-> SubscriptionRelease(
                             RunRemoveToken(a.w, cf, token, TRUE).w, a.subs),
                   ret |-> TRUE]

\* -------------------------------------------------- undefined behaviour
\* The thread's next step reads or writes a _Subscription that was freed.
Dangling(t) ==
    IF Depth(t) = 0 THEN FALSE
    ELSE LET f == Top(t)
         IN  \/ /\ f.pc \in {"strip", "release1", "release2", "next_ref",
                             "next_release"}
                /\ heap[f.subs].freed
             \/ /\ f.pc = "notify" /\ f.notify /\ cancel_function
                /\ heap[f.subs].freed
             \/ f.pc = "down_release" /\ heap[f.outer].freed

\* The handle the thread's next step goes through.
Handle(t) == IF Top(t).pc = "down_release" THEN Top(t).outer ELSE Top(t).subs

\* The live _Subscription objects that may occupy the memory of the freed s.
Occupants(s) == {o \in DOMAIN heap : ~heap[o].freed /\ s \in heap[o].over}

\* A use after free: the behaviour is undefined.  Either the access faults
\* or finds garbage, or, for a _SubscriptionRelease, it decrements the count
\* of the _Subscription that occupies the memory by now and frees it at 0.
\* The model follows the program no further in either case.
UseAfterFree(t) ==
    /\ ~crashed
    /\ Dangling(t)
    /\ crashed' = TRUE
    /\ \/ UNCHANGED <<token_map, subscription_lists, heap, msgRef, watches>>
       \/ /\ Top(t).pc \in {"release1", "release2", "next_release",
                             "down_release"}
          /\ \E o \in Occupants(Handle(t)) :
                 SetWorld(SubscriptionRelease(World, o))
    /\ UNCHANGED <<cancel_function, lock, stack>>

\* ------------------------------------------------------------ actions
\* LSSubscriptionSetCancelFunction(sh, cancelFunction, ctx, lserror)
LSSubscriptionSetCancelFunction(t, set) ==
    /\ cancel_function # set
    /\ cancel_function' = set
    /\ UNCHANGED <<token_map, subscription_lists, lock, heap, msgRef, watches,
                   stack, crashed>>

\* LSSubscriptionAdd(sh, key, message, lserror): _CatalogAdd, one critical
\* section.
LSSubscriptionAdd(t, key, m, callOk) ==
    /\ Unlocked
    /\ LSMessageGetUniqueToken(m) \in DOMAIN token_map \/ Len(heap) < MaxSubs
    /\ LET r == CatalogAdd(World, key, m, callOk)
       IN  /\ SetWorld(r.w)
           /\ Push(t, [Frame EXCEPT !.kind = "add", !.pc = "ret", !.key = key,
                                    !.msg = m, !.ok = r.ret])
    /\ UNCHANGED <<cancel_function, lock, crashed>>

\* _CatalogHandleCancel up to its call of _CatalogRemoveToken.
CatalogHandleCancel(t, sender, payload) ==
    /\ LET f == [Frame EXCEPT !.kind = "cancel", !.sender = sender,
                              !.payload = payload]
       IN  IF CancelRejected(payload)
           THEN Push(t, [f EXCEPT !.pc = "ret", !.ok = FALSE])
           ELSE Push(t, [f EXCEPT !.pc = "acquire", !.notify = TRUE,
                                  !.token = CancelToken(sender, payload)])
    /\ UNCHANGED <<token_map, subscription_lists, cancel_function, lock, heap,
                   msgRef, watches, crashed>>

\* _subscriber_down, called for the watch a _Subscription armed, up to its
\* _SubscriptionAcquire.
SubscriberDown(t, watch, payload) ==
    /\ watch \in watches
    /\ LET f == [Frame EXCEPT !.kind = "down", !.payload = payload,
                              !.ctx = heap[watch].message.token]
       IN  IF StatusIgnored(payload)
           THEN Push(t, [f EXCEPT !.pc = "ret", !.ok = TRUE])
           ELSE Push(t, [f EXCEPT !.pc = "down_acquire", !.notify = TRUE,
                                  !.token = DownToken(payload, f.ctx)])
    /\ UNCHANGED <<token_map, subscription_lists, cancel_function, lock, heap,
                   msgRef, watches, crashed>>

\* _subscriber_down's own _SubscriptionAcquire.
DownAcquire(t) ==
    /\ At(t, "down_acquire")
    /\ Unlocked
    /\ LET r == SubscriptionAcquire(World, Top(t).token)
       IN  /\ SetWorld(r.w)
           /\ SetTop(t, IF r.subs = 0
                        THEN [Top(t) EXCEPT !.pc = "ret", !.ok = TRUE]
                        ELSE [Top(t) EXCEPT !.pc = "acquire", !.outer = r.subs])
    /\ UNCHANGED <<cancel_function, lock, crashed>>

\* _CatalogRemoveToken: _SubscriptionAcquire(catalog, token).
RemoveAcquire(t) ==
    /\ At(t, "acquire")
    /\ Unlocked
    /\ LET r == SubscriptionAcquire(World, Top(t).token)
       IN  /\ SetWorld(r.w)
           /\ SetTop(t, IF r.subs = 0 THEN AfterRemove(Top(t))
                        ELSE [Top(t) EXCEPT !.pc = "notify", !.subs = r.subs])
    /\ UNCHANGED <<cancel_function, lock, crashed>>

\* _CatalogRemoveToken: if (notify && catalog->cancel_function) the callback
\* is called with subs->message.
RemoveNotify(t) ==
    /\ At(t, "notify")
    /\ ~Dangling(t)
    /\ IF Top(t).notify /\ cancel_function
       THEN /\ SetWorld(NoteCancel(World, Top(t).subs))
            /\ SetTop(t, [Top(t) EXCEPT !.pc = "callback"])
       ELSE /\ SetTop(t, [Top(t) EXCEPT !.pc = "strip"])
            /\ UNCHANGED <<token_map, subscription_lists, heap, msgRef, watches>>
    /\ UNCHANGED <<cancel_function, lock, crashed>>

\* The cancel callback returns.
CallbackReturn(t) ==
    /\ At(t, "callback")
    /\ SetTop(t, [Top(t) EXCEPT !.pc = "strip"])
    /\ UNCHANGED <<token_map, subscription_lists, cancel_function, lock, heap,
                   msgRef, watches, crashed>>

\* _CatalogRemoveToken: the loop over subs->keys, one critical section.
RemoveStrip(t) ==
    /\ At(t, "strip")
    /\ ~Dangling(t)
    /\ Unlocked
    /\ SetWorld(StripLists(World, Top(t).subs, Top(t).token))
    /\ SetTop(t, [Top(t) EXCEPT !.pc = "unindex"])
    /\ UNCHANGED <<cancel_function, lock, crashed>>

\* _SubscriptionRemove: g_hash_table_remove(catalog->token_map, token).
RemoveUnindex(t) ==
    /\ At(t, "unindex")
    /\ Unlocked
    /\ SetWorld(Unindex(World, Top(t).token))
    /\ SetTop(t, [Top(t) EXCEPT !.pc = "release1"])
    /\ UNCHANGED <<cancel_function, lock, crashed>>

\* _SubscriptionRemove: _SubscriptionRelease(catalog, subs).
RemoveRelease1(t) ==
    /\ At(t, "release1")
    /\ ~Dangling(t)
    /\ SetWorld(SubscriptionRelease(World, Top(t).subs))
    /\ SetTop(t, [Top(t) EXCEPT !.pc = "release2"])
    /\ UNCHANGED <<cancel_function, lock, crashed>>

\* _CatalogRemoveToken: _SubscriptionRelease(catalog, subs); return true.
RemoveRelease2(t) ==
    /\ At(t, "release2")
    /\ ~Dangling(t)
    /\ SetWorld(SubscriptionRelease(World, Top(t).subs))
    /\ SetTop(t, AfterRemove(Top(t)))
    /\ UNCHANGED <<cancel_function, lock, crashed>>

\* _subscriber_down: _SubscriptionRelease(sh->catalog, subs).
DownRelease(t) ==
    /\ At(t, "down_release")
    /\ ~Dangling(t)
    /\ SetWorld(SubscriptionRelease(World, Top(t).outer))
    /\ SetTop(t, [Top(t) EXCEPT !.pc = "ret", !.ok = TRUE])
    /\ UNCHANGED <<cancel_function, lock, crashed>>

\* A call that ran to its return statement returns to its caller.
Return(t) ==
    /\ At(t, "ret")
    /\ Pop(t)
    /\ UNCHANGED <<token_map, subscription_lists, cancel_function, lock, heap,
                   msgRef, watches, crashed>>

\* ------------------------------------------------------------ process
\* LSMessageGetKind(message), the default key "/category/method": every
\* message of the model is a call of the same method.
LSMessageGetKind(m) == "k1"

\* LSSubscriptionProcess run from start to end: the catalog after it, what
\* it returns and what *subscribed holds, was being what *subscribed held
\* before the call.
RunProcess(w, m, payload, was, callOk) ==
    IF ~payload.parsed
    THEN [w |-> w, ret |-> FALSE, subscribed |-> was]
    ELSE LET subscribePayload == IF payload.subscribe = JAbsent THEN FALSE
                                 ELSE JsonGetBoolean(payload.subscribe)
         IN  IF subscribePayload
             THEN LET r == CatalogAdd(w, LSMessageGetKind(m), m, callOk)
                  IN  [w |-> r.w, ret |-> r.ret, subscribed |-> r.ret]
             ELSE [w |-> w, ret |-> TRUE, subscribed |-> FALSE]

\* LSSubscriptionProcess(sh, message, subscribed, lserror)
LSSubscriptionProcess(t, m, payload, was, callOk) ==
    /\ Unlocked
    /\ LET r == RunProcess(World, m, payload, was, callOk)
       IN  /\ Len(r.w.heap) <= MaxSubs
           /\ SetWorld(r.w)
           /\ Push(t, [Frame EXCEPT !.kind = "process", !.pc = "ret",
                                    !.msg = m, !.payload = payload,
                                    !.ok = r.ret,
                                    !.subscribed = r.subscribed])
    /\ UNCHANGED <<cancel_function, lock, crashed>>

\* ----------------------------------------------------------- iterator
\* LSSubscriptionAcquire(sh, key, ret_iter, lserror)
LSSubscriptionAcquire(t, key) ==
    /\ Unlocked
    /\ LET has == key \in DOMAIN subscription_lists
       IN  Push(t, [Frame EXCEPT
                       !.kind = "iter", !.pc = "idle", !.key = key,
                       !.hasTokens = has,
                       !.tokens = IF has THEN SubListDup(subscription_lists[key])
                                  ELSE <<>>,
                       !.index = -1])
    /\ UNCHANGED <<token_map, subscription_lists, cancel_function, lock, heap,
                   msgRef, watches, crashed>>

\* LSSubscriptionHasNext(iter)
LSSubscriptionHasNext(iter) ==
    IF ~iter.hasTokens THEN FALSE ELSE iter.index + 1 < Len(iter.tokens)

\* _SubListGet(tokens, i) returns a token: i is within the list.
InRange(tokens, i) == ~(i < 0 \/ i >= Len(tokens))

\* _SubListGet(tokens, i), the C index i counting from 0.
SubListGet(tokens, i) == tokens[i + 1]

\* LSSubscriptionNext(iter) up to the end of its _SubscriptionAcquire.
LSSubscriptionNext(t) ==
    /\ At(t, "idle")
    /\ Top(t).hasTokens
    /\ Top(t).index < Len(Top(t).tokens)
    /\ LET f == [Top(t) EXCEPT !.index = @ + 1, !.msg = NoMessage]
       IN  IF ~InRange(f.tokens, f.index)
           THEN /\ SetTop(t, f)
                /\ UNCHANGED <<token_map, subscription_lists, heap, msgRef,
                               watches>>
           ELSE /\ Unlocked
                /\ LET r == SubscriptionAcquire(World,
                                                SubListGet(f.tokens, f.index))
                   IN  /\ SetWorld(r.w)
                       /\ SetTop(t, IF r.subs = 0 THEN f
                                    ELSE [f EXCEPT !.pc = "next_ref",
                                                   !.subs = r.subs])
    /\ UNCHANGED <<cancel_function, lock, crashed>>

\* LSSubscriptionNext: message = subs->message; LSMessageRef(message);
\* the message is prepended to iter->seen_messages.
NextRef(t) ==
    /\ At(t, "next_ref")
    /\ ~Dangling(t)
    /\ LET message == heap[Top(t).subs].message
       IN  /\ msgRef' = [msgRef EXCEPT ![message] = @ + 1]
           /\ SetTop(t, [Top(t) EXCEPT !.pc = "next_release", !.msg = message,
                                       !.seen = <<message>> \o @])
    /\ UNCHANGED <<token_map, subscription_lists, cancel_function, lock, heap,
                   watches, crashed>>

\* LSSubscriptionNext: _SubscriptionRelease(iter->catalog, subs); return.
NextRelease(t) ==
    /\ At(t, "next_release")
    /\ ~Dangling(t)
    /\ SetWorld(SubscriptionRelease(World, Top(t).subs))
    /\ SetTop(t, [Top(t) EXCEPT !.pc = "idle", !.subs = 0])
    /\ UNCHANGED <<cancel_function, lock, crashed>>

\* LSSubscriptionRemove(iter) up to its call of _CatalogRemoveToken.
LSSubscriptionRemove(t) ==
    /\ At(t, "idle")
    /\ Top(t).hasTokens
    /\ LET f == Top(t)
       IN  IF InRange(f.tokens, f.index)
           THEN SetTop(t, [f EXCEPT !.pc = "acquire", !.notify = FALSE,
                                    !.token = SubListGet(f.tokens, f.index)])
           ELSE SetTop(t, f)
    /\ UNCHANGED <<token_map, subscription_lists, cancel_function, lock, heap,
                   msgRef, watches, crashed>>

RECURSIVE UnrefAll(_, _)
\* LSMessageUnref of every message of seen.
UnrefAll(refs, seen) ==
    IF seen = <<>> THEN refs
    ELSE UnrefAll([refs EXCEPT ![Head(seen)] = @ - 1], Tail(seen))

\* LSSubscriptionRelease(iter)
LSSubscriptionRelease(t) ==
    /\ At(t, "idle")
    /\ msgRef' = UnrefAll(msgRef, Top(t).seen)
    /\ Pop(t)
    /\ UNCHANGED <<token_map, subscription_lists, cancel_function, lock, heap,
                   watches, crashed>>

\* LSSubscriptionNext or LSSubscriptionRemove on an iterator whose tokens
\* is NULL: _SubListGet reads tokens->len.
NullListGet(t) ==
    /\ At(t, "idle")
    /\ ~Top(t).hasTokens
    /\ crashed' = TRUE
    /\ UNCHANGED <<token_map, subscription_lists, cancel_function, lock, heap,
                   msgRef, watches, stack>>

\* -------------------------------------------------------------- reply
\* LSSubscriptionReply(sh, key, payload, lserror) up to its loop.
LSSubscriptionReply(t, key) ==
    /\ Unlocked
    /\ IF key \in DOMAIN subscription_lists
       THEN /\ lock' = t
            /\ Push(t, [Frame EXCEPT !.kind = "reply", !.pc = "reply_loop",
                                     !.key = key, !.i = 0])
       ELSE /\ lock' = NoThread
            /\ Push(t, [Frame EXCEPT !.kind = "reply", !.pc = "ret",
                                     !.key = key, !.ok = TRUE])
    /\ UNCHANGED <<token_map, subscription_lists, cancel_function, heap, msgRef,
                   watches, crashed>>

\* The thread is about to call LSMessageReply(sh, message, payload, lserror).
AtReplyCall(t) ==
    /\ At(t, "reply_loop")
    /\ Top(t).i < Len(subscription_lists[Top(t).key])
    /\ subscription_lists[Top(t).key][Top(t).i + 1] \in DOMAIN token_map

\* One round of LSSubscriptionReply's loop; sent is what LSMessageReply
\* returns.  The frame's seen lists the messages LSMessageReply was called
\* with.
ReplyStep(t, sent) ==
    /\ At(t, "reply_loop")
    /\ Top(t).i < Len(subscription_lists[Top(t).key])
    /\ IF ~AtReplyCall(t)
       THEN /\ SetTop(t, [Top(t) EXCEPT !.i = @ + 1])
            /\ UNCHANGED lock
       ELSE LET tok == subscription_lists[Top(t).key][Top(t).i + 1]
                message == heap[token_map[tok]].message
            IN  IF sent
                THEN /\ SetTop(t, [Top(t) EXCEPT !.i = @ + 1,
                                                 !.seen = Append(@, message)])
                     /\ UNCHANGED lock
                ELSE /\ SetTop(t, [Top(t) EXCEPT !.pc = "ret", !.ok = FALSE,
                                                 !.seen = Append(@, message)])
                     /\ lock' = NoThread
    /\ UNCHANGED <<token_map, subscription_lists, cancel_function, heap, msgRef,
                   watches, crashed>>

\* LSSubscriptionReply after its loop: cleanup.
ReplyDone(t) ==
    /\ At(t, "reply_loop")
    /\ Top(t).i >= Len(subscription_lists[Top(t).key])
    /\ SetTop(t, [Top(t) EXCEPT !.pc = "ret", !.ok = TRUE])
    /\ lock' = NoThread
    /\ UNCHANGED <<token_map, subscription_lists, cancel_function, heap, msgRef,
                   watches, crashed>>

\* ----------------------------------------------------------- snapshot
RECURSIVE Subscribers(_, _)
\* _LSSubscriptionGetJson's inner loop: the messages of the tokens of a list
\* that the token map knows.
Subscribers(w, tokens) ==
    IF tokens = <<>> THEN <<>>
    ELSE IF Head(tokens) \in DOMAIN w.token_map
         THEN <<w.heap[w.token_map[Head(tokens)]].message>>
                  \o Subscribers(w, Tail(tokens))
         ELSE Subscribers(w, Tail(tokens))

\* _LSSubscriptionGetJson: for every key its subscribers.
LSSubscriptionGetJson(w) ==
    [k \in DOMAIN w.subscription_lists |->
        Subscribers(w, w.subscription_lists[k])]

\* LSSubscriptionReply run from start to end; the fail-th call of
\* LSMessageReply returns false (none does when there are fewer calls).
RunReply(w, key, fail) ==
    IF key \notin DOMAIN w.subscription_lists
    THEN [ret |-> TRUE, invoked |-> <<>>]
    ELSE LET msgs == Subscribers(w, w.subscription_lists[key])
         IN  IF fail \in 1..Len(msgs)
             THEN [ret |-> FALSE, invoked |-> SubSeq(msgs, 1, fail)]
             ELSE [ret |-> TRUE, invoked |-> msgs]

\* LSSubscriptionRespond: LSSubscriptionReply on the public connection's
\* catalog, then on the private connection's.
RunRespond(public, private, key, failPublic, failPrivate) ==
    LET a == RunReply(public, key, failPublic)
    IN  IF ~a.ret THEN a
        ELSE LET b == RunReply(private, key, failPrivate)
             IN  [ret |-> b.ret, invoked |-> a.invoked \o b.invoked]

Snapshot(t) ==
    /\ Unlocked
    /\ Push(t, [Frame EXCEPT !.kind = "snapshot", !.pc = "ret", !.ok = TRUE,
                             !.snap = LSSubscriptionGetJson(World)])
    /\ UNCHANGED <<token_map, subscription_lists, cancel_function, lock, heap,
                   msgRef, watches, crashed>>

\* ----------------------------------------------------- specifications
\* _CatalogRemoveToken's steps, whoever called it.
RemoveSteps(t) ==
    \/ RemoveAcquire(t)
    \/ RemoveNotify(t)
    \/ CallbackReturn(t)
    \/ RemoveStrip(t)
    \/ RemoveUnindex(t)
    \/ RemoveRelease1(t)
    \/ RemoveRelease2(t)

\* The calls made on an iterator the thread holds.
IterSteps(t) ==
    \/ LSSubscriptionNext(t)
    \/ NextRef(t)
    \/ NextRelease(t)
    \/ LSSubscriptionRemove(t)
    \/ LSSubscriptionRelease(t)
    \/ NullListGet(t)

\* One service thread, every API function, every payload; the cancel
\* callback does not call back into the catalog.
Next ==
    \E t \in {"t1"} :
        \/ \E set \in BOOLEAN :
               CanCall(t, 1) /\ LSSubscriptionSetCancelFunction(t, set)
        \/ \E key \in Keys, m \in Messages, callOk \in BOOLEAN :
               CanCall(t, 1) /\ LSSubscriptionAdd(t, key, m, callOk)
        \/ \E sender \in Senders, payload \in CancelPayloads :
               CanCall(t, 1) /\ CatalogHandleCancel(t, sender, payload)
        \/ \E watch \in watches :
               \E payload \in StatusPayloads(heap[watch].message.sender) :
                   CanCall(t, 1) /\ SubscriberDown(t, watch, payload)
        \/ \E m \in Messages, payload \in ProcessPayloads :
               \E was, callOk \in BOOLEAN :
                   CanCall(t, 1)
                       /\ LSSubscriptionProcess(t, m, payload, was, callOk)
        \/ \E key \in Keys : CanCall(t, 1) /\ LSSubscriptionAcquire(t, key)
        \/ \E key \in Keys : CanCall(t, 1) /\ LSSubscriptionReply(t, key)
        \/ CanCall(t, 1) /\ Snapshot(t)
        \/ RemoveSteps(t)
        \/ DownAcquire(t)
        \/ DownRelease(t)
        \/ IterSteps(t)
        \/ \E sent \in BOOLEAN : ReplyStep(t, sent)
        \/ ReplyDone(t)
        \/ Return(t)

Spec == Init /\ [][Next]_vars

\* Two service threads that add, cancel and iterate over one subscription of
\* one key; the cancel callback may call back into the catalog.
RaceMessages == {m \in Messages : m.sender = ShortSender /\ m.token = 1}
RaceKeys == {"k1"}
RacePayloads == {Payload(TRUE, JInt(m.token), JAbsent, JAbsent) : m \in RaceMessages}

NextRace ==
    \E t \in Threads :
        \/ \E set \in BOOLEAN :
               CanCall(t, MaxDepth) /\ LSSubscriptionSetCancelFunction(t, set)
        \/ \E key \in RaceKeys, m \in RaceMessages, callOk \in BOOLEAN :
               CanCall(t, MaxDepth) /\ LSSubscriptionAdd(t, key, m, callOk)
        \/ \E m \in RaceMessages, payload \in RacePayloads :
               CanCall(t, MaxDepth) /\ CatalogHandleCancel(t, m.sender, payload)
        \/ \E key \in RaceKeys :
               CanCall(t, MaxDepth) /\ LSSubscriptionAcquire(t, key)
        \/ RemoveSteps(t)
        \/ IterSteps(t)
        \/ Return(t)
        \/ UseAfterFree(t)

SpecRace == Init /\ [][NextRace]_vars

\* One service thread whose cancel callback calls back into the catalog.
NextReenter ==
    \E t \in {"t1"} :
        \/ \E set \in BOOLEAN :
               CanCall(t, MaxDepth) /\ LSSubscriptionSetCancelFunction(t, set)
        \/ \E key \in RaceKeys, m \in RaceMessages, callOk \in BOOLEAN :
               CanCall(t, MaxDepth) /\ LSSubscriptionAdd(t, key, m, callOk)
        \/ \E m \in RaceMessages, payload \in RacePayloads :
               CanCall(t, MaxDepth) /\ CatalogHandleCancel(t, m.sender, payload)
        \/ \E key \in RaceKeys :
               CanCall(t, MaxDepth) /\ LSSubscriptionAcquire(t, key)
        \/ RemoveSteps(t)
        \/ IterSteps(t)
        \/ Return(t)
        \/ UseAfterFree(t)

SpecReenter == Init /\ [][NextReenter]_vars

\* ------------------------------------------------------------- claims
\* The calls in progress on a thread.
Frames(t) == {stack[t][i] : i \in 1..Depth(t)}

\* How often x occurs in list.
Count(list, x) == Cardinality({i \in DOMAIN list : list[i] = x})

\* The list of key, empty when the key has none.
ListOf(lists, key) == IF key \in DOMAIN lists THEN lists[key] ELSE <<>>

\* list without the occurrences of x.
Without(list, x) == LET Keep(y) == y # x IN SelectSeq(list, Keep)

\* The thread's innermost call is LSSubscriptionAdd about to return true.
AddSucceeded(t) == At(t, "ret") /\ Top(t).kind = "add" /\ Top(t).ok

\* C1: when LSSubscriptionAdd(key, m) returns success the token map holds
\* the Subscription of m's identifier, key is in its key set, and the list of
\* every key of that key set contains the identifier (after Add(k1, m) and
\* Add(k2, m): one Subscription, keys {k1, k2}, both lists contain it).
C1_AddIndexesUnderEveryKey ==
    \A t \in Threads :
        AddSucceeded(t) =>
            LET id == LSMessageGetUniqueToken(Top(t).msg)
            IN  /\ id \in DOMAIN token_map
                /\ Top(t).key \in SeqSet(heap[token_map[id]].keys)
                /\ \A k \in SeqSet(heap[token_map[id]].keys) :
                      id \in SeqSet(ListOf(subscription_lists, k))

\* C2: LSSubscriptionAdd is idempotent: once Add(key, m) has succeeded,
\* adding (key, m) again succeeds and leaves the catalog unchanged, and the
\* identifier occurs in key's list exactly once.
C2_AddIsIdempotent ==
    \A t \in Threads :
        AddSucceeded(t) =>
            /\ \A callOk \in BOOLEAN :
                  LET again == CatalogAdd(World, Top(t).key, Top(t).msg, callOk)
                  IN  again.ret /\ again.w = World
            /\ Count(ListOf(subscription_lists, Top(t).key),
                     LSMessageGetUniqueToken(Top(t).msg)) = 1

\* The thread takes _CatalogRemoveToken's step from pc to next.
RemoveStepOf(t, pc, next) ==
    /\ At(t, pc)
    /\ stack'[t] = [stack[t] EXCEPT ![Depth(t)].pc = next]

\* C3: removal is all-or-nothing: _CatalogRemoveToken takes the identifier
\* out of the list of every key of the Subscription's key set, deletes the
\* lists that became empty, leaves the other members of every list as they
\* were, and takes the identifier out of the token map.
C3_RemovalStripsOnlyItsIdentifier ==
    [][\A t \in Threads :
          /\ RemoveStepOf(t, "strip", "unindex") =>
                \A k \in Keys :
                    LET old == ListOf(subscription_lists, k)
                        mine == k \in SeqSet(heap[Top(t).subs].keys)
                        expected == IF mine THEN Without(old, Top(t).token)
                                    ELSE old
                    IN  /\ ListOf(subscription_lists', k) = expected
                        /\ mine /\ expected = <<>> =>
                              k \notin DOMAIN subscription_lists'
          /\ RemoveStepOf(t, "unindex", "release1") =>
                /\ Top(t).token \notin DOMAIN token_map'
                /\ \A k \in DOMAIN subscription_lists' :
                      Top(t).token \notin SeqSet(subscription_lists'[k])
      ]_vars

\* C4: LSSubscriptionNext never reads a Subscription that was freed, whatever
\* _CatalogRemoveToken calls run beside it, and every message an iterator
\* returned is still referenced while the iterator is held.
C4_NextReadsLiveSubscription ==
    \A t \in Threads :
        \A f \in Frames(t) :
            /\ f.pc \in {"next_ref", "next_release"} => ~heap[f.subs].freed
            /\ f.kind = "iter" =>
                  \A i \in DOMAIN f.seen : msgRef[f.seen[i]] > 0

\* C5: LSSubscriptionReply delivers each reply outside the catalog lock: the
\* thread that is about to call LSMessageReply does not hold it.
C5_ReplyDeliveredUnlocked ==
    \A t \in Threads : AtReplyCall(t) => lock # t

\* The thread is in a _CatalogRemoveToken that has called the cancel
\* callback and got it back.
AfterCallback(t) ==
    IF Depth(t) = 0 THEN FALSE
    ELSE /\ Top(t).notify
         /\ Top(t).pc \in {"strip", "unindex", "release1", "release2"}
         /\ heap[Top(t).subs].cancelled > 0

\* C6: the cancel callback runs without the catalog lock, and a removal
\* whose callback called back into the catalog completes: its remaining
\* steps never touch a Subscription that was freed.
C6_ReenteringCallbackCompletes ==
    \A t \in Threads :
        /\ \A f \in Frames(t) : f.pc = "callback" => lock # t
        /\ AfterCallback(t) => ~Dangling(t) /\ ~crashed

\* C7: at the moment _CatalogRemoveToken calls the cancel callback the
\* indexes are unmodified: the token map still maps the identifier to the
\* Subscription and the list of every key of its key set still contains it.
C7_CallbackSeesUnmodifiedIndexes ==
    [][\A t \in Threads :
          RemoveStepOf(t, "notify", "callback") =>
              LET f == Top(t)
              IN  /\ f.token \in DOMAIN token_map
                  /\ token_map[f.token] = f.subs
                  /\ \A k \in SeqSet(heap[f.subs].keys) :
                        f.token \in SeqSet(ListOf(subscription_lists, k))
      ]_vars

\* The cancel message the subscriber m sends.
CancelOf(m) == Payload(TRUE, JInt(m.token), JAbsent, JAbsent)

\* The server status notification that the service of m went down.
DownOf(m) == Payload(TRUE, JAbsent, JBool(FALSE), JStr(m.sender))

\* C8: an explicit cancel and a disconnect remove a subscriber the same way:
\* from any catalog, _CatalogHandleCancel with the subscriber's sender and
\* token and _subscriber_down with its watch leave the same catalog, the
\* same reference counts and the same number of callback calls.
C8_CancelEqualsDisconnect ==
    \A watch \in watches :
        LET m == heap[watch].message
            c == RunHandleCancel(World, cancel_function, m.sender, CancelOf(m))
            d == RunSubscriberDown(World, cancel_function, m.token, DownOf(m))
            id == LSMessageGetUniqueToken(m)
        IN  /\ c.w = d.w
            /\ c.ret /\ d.ret
            /\ id \notin DOMAIN d.w.token_map
            /\ \A k \in DOMAIN d.w.subscription_lists :
                  id \notin SeqSet(d.w.subscription_lists[k])

\* A disconnect has removed a subscriber and called the callback for it,
\* and another subscriber is still watched.
C8_DisconnectRemoved ==
    \E t \in Threads :
        /\ At(t, "ret")
        /\ Top(t).kind = "down"
        /\ Top(t).outer # 0
        /\ heap[Top(t).outer].freed
        /\ heap[Top(t).outer].cancelled = 1
        /\ Top(t).token \notin DOMAIN token_map
        /\ watches # {}

\* The payload is a JSON object whose "token" is an integer.
WellFormedCancel(p) == p.parsed /\ p.token.type = "int"

\* The notification is unparsable, lacks "connected" or "serviceName", or
\* says the service is connected.
MalformedStatus(p) ==
    \/ ~p.parsed
    \/ p.connected.type = "absent"
    \/ p.serviceName.type = "absent"
    \/ p.connected.type = "boolean" /\ p.connected.num = 1

\* C9: malformed input never mutates: a cancel payload that is unparsable,
\* has no token or a token that is not an integer makes _CatalogHandleCancel
\* fail without entering _CatalogRemoveToken, and a malformed or
\* connected = true notification makes _subscriber_down return at once.
C9_MalformedInputIsRejected ==
    \A t \in Threads :
        \A f \in Frames(t) :
            /\ f.kind = "cancel" /\ ~WellFormedCancel(f.payload) =>
                  f.pc = "ret" /\ ~f.ok
            /\ f.kind = "down" /\ MalformedStatus(f.payload) => f.pc = "ret"

\* C10: _CatalogHandleCancel with a well-formed payload from sender s with
\* token n removes the subscriber s.n if it is registered; if it is not, the
\* call changes nothing, calls no callback, and still succeeds.
C10_CancelRemovesOrIsNoOp ==
    /\ \A m \in Messages :
          LET id == LSMessageGetUniqueToken(m)
              r == RunHandleCancel(World, cancel_function, m.sender, CancelOf(m))
          IN  /\ r.ret
              /\ id \in DOMAIN token_map =>
                    /\ id \notin DOMAIN r.w.token_map
                    /\ \A k \in DOMAIN r.w.subscription_lists :
                          id \notin SeqSet(r.w.subscription_lists[k])
              /\ id \notin DOMAIN token_map => r.w = World
    /\ \A t \in Threads :
          At(t, "ret") /\ Top(t).kind = "cancel"
                       /\ WellFormedCancel(Top(t).payload) =>
              /\ Top(t).ok
              /\ Top(t).token \notin DOMAIN token_map
              /\ \A k \in DOMAIN subscription_lists :
                    Top(t).token \notin SeqSet(subscription_lists[k])

\* A well-formed cancel has removed its subscriber and is about to return.
C10_CancelRemoved ==
    \E t \in Threads :
        /\ At(t, "ret")
        /\ Top(t).kind = "cancel"
        /\ WellFormedCancel(Top(t).payload)
        /\ Top(t).subs # 0
        /\ heap[Top(t).subs].freed

\* The thread's step is a whole LSSubscriptionAdd that returns ok.
AddStep(t, ok) ==
    /\ Len(stack'[t]) = Len(stack[t]) + 1
    /\ stack'[t][Len(stack'[t])].kind = "add"
    /\ stack'[t][Len(stack'[t])].ok = ok

\* C11: an LSSubscriptionAdd that fails because the server status watch
\* could not be armed leaves nothing behind: the identifier is in neither
\* index, the message reference is released, no watch is armed, and the token
\* map and the subscription lists are what they were before the call.
C11_FailedAddLeavesNothing ==
    [][\A t \in Threads :
          AddStep(t, FALSE) =>
              LET id == LSMessageGetUniqueToken(
                            stack'[t][Len(stack'[t])].msg)
              IN  /\ id \notin DOMAIN token_map'
                  /\ \A k \in DOMAIN subscription_lists' :
                        id \notin SeqSet(subscription_lists'[k])
                  /\ msgRef' = msgRef
                  /\ watches' = watches
                  /\ token_map' = token_map
                  /\ subscription_lists' = subscription_lists
      ]_vars

\* The thread's step is a whole LSSubscriptionAcquire.
AcquireStep(t) ==
    /\ Len(stack'[t]) = Len(stack[t]) + 1
    /\ stack'[t][Len(stack'[t])].kind = "iter"

\* C12: an iterator's snapshot is immutable: it is the list of its key at
\* the instant of LSSubscriptionAcquire, no step of any thread changes it
\* while the iterator is held, LSSubscriptionNext visits its identifiers one
\* after the other, and LSSubscriptionHasNext is true as long as identifiers
\* of the snapshot are left.
C12_SnapshotIsImmutable ==
    [][\A t \in Threads :
          /\ AcquireStep(t) =>
                LET f == stack'[t][Len(stack'[t])]
                IN  /\ f.tokens = ListOf(subscription_lists, f.key)
                    /\ f.hasTokens = (f.key \in DOMAIN subscription_lists)
                    /\ f.index = -1
          /\ \A i \in 1..Len(stack[t]) :
                (i <= Len(stack'[t]) /\ stack[t][i].kind = "iter") =>
                    LET f == stack[t][i]
                        g == stack'[t][i]
                    IN  /\ g.kind = "iter"
                        /\ g.tokens = f.tokens
                        /\ g.hasTokens = f.hasTokens
                        /\ g.key = f.key
                        /\ g.index \in {f.index, f.index + 1}
                        /\ g.index = f.index + 1 =>
                              /\ LSSubscriptionHasNext(f) =
                                    (g.index < Len(f.tokens))
                              /\ g.pc = "next_ref" =>
                                    /\ f.tokens[g.index + 1] \in DOMAIN token_map
                                    /\ token_map[f.tokens[g.index + 1]] = g.subs
      ]_vars

\* An iterator has visited an identifier of its snapshot whose key has lost
\* its list since LSSubscriptionAcquire.
C12_SnapshotOutlivesList ==
    \E t \in Threads :
        \E f \in Frames(t) :
            /\ f.kind = "iter"
            /\ f.tokens # <<>>
            /\ f.index = 0
            /\ f.key \notin DOMAIN subscription_lists

\* The messages of the identifiers of key's list that have a Subscription.
CurrentSubscribers(key) ==
    Subscribers(World, ListOf(subscription_lists, key))

\* s is t or a beginning of t.
IsPrefix(s, t) == Len(s) <= Len(t) /\ s = SubSeq(t, 1, Len(s))

\* The thread's LSSubscriptionReply is about to return.
ReplyReturns(t) == At(t, "ret") /\ Top(t).kind = "reply"

\* C13: whenever LSSubscriptionReply returns, LSMessageReply has
\* been called exactly once for the message of every identifier of key's
\* list that has a Subscription, and for no other message.
C13_ReplyReachesEverySubscriber ==
    \A t \in Threads :
        ReplyReturns(t) => Top(t).seen = CurrentSubscribers(Top(t).key)

\* What LSSubscriptionReply does: one that returns true has called
\* LSMessageReply exactly once for every current subscriber of key and for
\* no other message (for none when key has no list); one that returns false
\* has called it for the subscribers up to the first whose LSMessageReply
\* failed, and for no later one.  LSSubscriptionRespond does this on the
\* public connection and, if that succeeded, on the private one.
ReplyReachesSubscribersUntilFailure ==
    /\ \A t \in Threads :
          ReplyReturns(t) =>
              LET f == Top(t)
                  all == CurrentSubscribers(f.key)
              IN  /\ f.ok => f.seen = all
                  /\ ~f.ok => f.seen # <<>> /\ IsPrefix(f.seen, all)
                  /\ \A m \in Messages : Count(f.seen, m) <= 1
                  /\ \E fail \in 0..Len(all) :
                        RunReply(World, f.key, fail)
                            = [ret |-> f.ok, invoked |-> f.seen]
    /\ \A key \in Keys :
          LET all == CurrentSubscribers(key)
          IN  \A failPublic, failPrivate \in 0..Len(all) :
                  LET r == RunRespond(World, World, key, failPublic,
                                      failPrivate)
                  IN  /\ r.ret = (failPublic = 0 /\ failPrivate = 0)
                      /\ r.ret => r.invoked = all \o all
                      /\ failPublic # 0 =>
                            r.invoked = SubSeq(all, 1, failPublic)
                      /\ failPublic = 0 /\ failPrivate # 0 =>
                            r.invoked = all \o SubSeq(all, 1, failPrivate)

\* An LSSubscriptionReply to two subscribers succeeded.
RepliedToTwo ==
    \E t \in Threads :
        ReplyReturns(t) /\ Top(t).ok /\ Len(Top(t).seen) = 2

\* C14: LSSubscriptionProcess reports subscribed = true exactly when the
\* payload's subscribe field is true and the Add under the default key
\* succeeded, and subscribed = false in every other outcome; a payload with
\* no subscribe field and one with subscribe = false end in distinct
\* outcomes, and neither adds a subscription.
C14_ProcessReportsSubscription ==
    \A t \in Threads :
        At(t, "ret") /\ Top(t).kind = "process" =>
            LET f == Top(t)
                asked == f.payload.parsed /\ f.payload.subscribe = JBool(TRUE)
            IN  /\ f.subscribed = (asked /\ f.ok)
                /\ f.payload.parsed /\ f.payload.subscribe = JAbsent =>
                      \A was, callOk \in BOOLEAN :
                          LET r == RunProcess(World, f.msg,
                                              ProcessPayload(TRUE, JBool(FALSE)),
                                              was, callOk)
                          IN  /\ r.w = World
                              /\ <<r.ret, r.subscribed>>
                                     # <<f.ok, f.subscribed>>

\* C15: index consistency (I2): whenever no thread holds the catalog lock,
\* an identifier is in the list of key k if and only if the token map holds
\* a Subscription for it whose key set contains k.
C15_IndexesAgree ==
    lock = NoThread =>
        \A k \in Keys, id \in Identifiers :
            (id \in SeqSet(ListOf(subscription_lists, k)))
                <=> /\ id \in DOMAIN token_map
                    /\ k \in SeqSet(heap[token_map[id]].keys)

\* C16: no empty lists (I3): whenever no thread holds the catalog lock,
\* every key of subscription_lists has a list that is not empty.
C16_NoEmptyList ==
    lock = NoThread =>
        \A k \in DOMAIN subscription_lists : subscription_lists[k] # <<>>

\* C17: reference-count safety (I4, I5): every Subscription the token map
\* leads to has a reference count of at least 1 and is not freed, which is
\* what _SubscriptionAcquire asserts; a Subscription is freed only by the
\* release that takes its count to 0, and only when the token map no longer
\* leads to it.
C17_IndexedSubscriptionsAreLive ==
    [][/\ \A id \in DOMAIN token_map' :
             /\ heap'[token_map'[id]].ref >= 1
             /\ ~heap'[token_map'[id]].freed
       /\ \A s \in DOMAIN heap :
             ~heap[s].freed /\ heap'[s].freed =>
                 /\ heap[s].ref = 1
                 /\ heap'[s].ref = 0
                 /\ \A id \in DOMAIN token_map : token_map[id] # s
      ]_vars

\* C18: overlapping _CatalogRemoveToken calls for one identifier are safe:
\* no reference count drops below 0, and neither of the two
\* _SubscriptionRelease calls of a _CatalogRemoveToken (lines 108 and 520) is
\* applied to a Subscription that was already freed, so the Subscription is
\* freed once.
C18_ConcurrentRemovalIsSafe ==
    /\ \A s \in DOMAIN heap : heap[s].ref >= 0
    /\ \A t \in Threads :
          Depth(t) > 0 /\ Top(t).pc \in {"release1", "release2"} =>
              ~heap[Top(t).subs].freed

\* The token map leads to the _Subscription s.
Indexed(s) == \E id \in DOMAIN token_map : token_map[id] = s

\* A call in progress holds a reference to s that it has yet to release.
Held(s) ==
    \E t \in Threads :
        \E f \in Frames(t) :
            \/ f.subs = s /\ f.pc \in {"notify", "callback", "strip", "unindex",
                                       "release1", "release2", "next_ref",
                                       "next_release"}
            \/ f.outer = s /\ f.kind = "down" /\ f.pc # "ret"

\* No _SubscriptionRelease is about to be applied to a freed _Subscription.
NoDoubleFree ==
    \A t \in Threads :
        Depth(t) > 0 /\ Top(t).pc \in {"release1", "release2", "next_release",
                                       "down_release"} => ~Dangling(t)

\* A _Subscription that is out of the token map and that no call holds is
\* freed, its watch is cancelled, and each message is referenced once by
\* every live _Subscription of it and once for every time an iterator
\* returned it.
NoLeak ==
    ~crashed =>
        /\ \A s \in DOMAIN heap :
              ~Indexed(s) /\ ~Held(s) =>
                  heap[s].freed /\ heap[s].serverStatusWatch \notin watches
        /\ \A s \in DOMAIN heap :
              heap[s].freed => heap[s].serverStatusWatch \notin watches
        /\ \A m \in Messages :
              msgRef[m] =
                  Cardinality({s \in DOMAIN heap :
                                  ~heap[s].freed /\ heap[s].message = m})
                  + Cardinality({<<t, d, i>> \in
                                    Threads \X (1..MaxDepth) \X (1..MaxSubs + 2) :
                                    /\ d <= Depth(t)
                                    /\ i <= Len(stack[t][d].seen)
                                    /\ stack[t][d].kind = "iter"
                                    /\ stack[t][d].seen[i] = m})

\* C19: no leak and no double free across a Subscription's life: once it is
\* removed and no call holds it, it has been freed once, its server status
\* watch is cancelled, the message count is back to what it was before the
\* first Add, and a message an iterator returned stays referenced until the
\* iterator is released.
C19_NoLeakNoDoubleFree == NoDoubleFree /\ NoLeak

\* The thread's innermost call is LSSubscriptionRemove on its iterator, at
\* one of _CatalogRemoveToken's steps.
InRemoveCurrent(t) ==
    IF crashed \/ Depth(t) = 0 THEN FALSE
    ELSE /\ Top(t).kind = "iter"
         /\ Top(t).pc \in {"acquire", "notify", "callback", "strip", "unindex",
                           "release1", "release2"}

\* The thread takes a step of its innermost call.
Steps(t) == stack'[t] # stack[t]

\* C20: LSSubscriptionRemove takes the Subscription of the identifier at the
\* iterator's cursor out of the token map and out of the list of every key
\* of its key set, and never calls the cancel callback; before the first
\* LSSubscriptionNext it does not enter _CatalogRemoveToken, and when the
\* identifier is no longer in the token map it leaves the catalog as it was.
C20_RemoveCurrentRemovesSilently ==
    [][\A t \in Threads :
          /\ InRemoveCurrent(t) /\ Steps(t) =>
                /\ stack'[t][Depth(t)].pc # "callback"
                /\ \A s \in DOMAIN heap :
                      heap'[s].cancelled = heap[s].cancelled
          /\ InRemoveCurrent(t) /\ Top(t).pc = "release2" /\ Steps(t) =>
                /\ Top(t).token \notin DOMAIN token_map'
                /\ \A k \in Keys :
                      Top(t).token \notin SeqSet(ListOf(subscription_lists', k))
          /\ InRemoveCurrent(t) /\ Top(t).pc = "acquire" /\ Steps(t)
                /\ Top(t).token \notin DOMAIN token_map =>
                /\ stack'[t][Depth(t)].pc = "idle"
                /\ UNCHANGED <<token_map, subscription_lists, heap, msgRef,
                               watches>>
          /\ At(t, "idle") /\ Top(t).kind = "iter" /\ Top(t).index = -1
                /\ Steps(t) /\ Len(stack'[t]) = Depth(t) =>
                stack'[t][Depth(t)].pc # "acquire"
      ]_vars

\* LSSubscriptionRemove has removed, with a cancel function set and without
\* calling it, the Subscription at the cursor, which had two keys.
C20_RemovedUnderBothKeys ==
    \E t \in Threads :
        /\ At(t, "idle")
        /\ Top(t).kind = "iter"
        /\ InRange(Top(t).tokens, Top(t).index)
        /\ cancel_function
        /\ SubListGet(Top(t).tokens, Top(t).index) \notin DOMAIN token_map
        /\ \E s \in DOMAIN heap :
              /\ heap[s].freed
              /\ heap[s].cancelled = 0
              /\ Len(heap[s].keys) = 2
              /\ LSMessageGetUniqueToken(heap[s].message)
                    = SubListGet(Top(t).tokens, Top(t).index)

\* The thread holds, between two calls on it, an iterator acquired on a key
\* that had no list.
HoldsEmptyIterator(t) ==
    At(t, "idle") /\ Top(t).kind = "iter" /\ ~Top(t).hasTokens

\* C21: an iterator acquired on a key that has no list holds an empty
\* snapshot: LSSubscriptionHasNext is false, an LSSubscriptionNext or
\* LSSubscriptionRemove issued on it anyway does nothing and does not fault,
\* and LSSubscriptionNext past the end of a snapshot returns no message.
C21_EmptyIteratorIsHarmless ==
    [][\A t \in Threads :
          /\ HoldsEmptyIterator(t) =>
                /\ ~LSSubscriptionHasNext(Top(t))
                /\ ~crashed'
          /\ At(t, "idle") /\ Top(t).kind = "iter" /\ Top(t).hasTokens
                /\ Len(stack'[t]) = Depth(t)
                /\ stack'[t][Depth(t)].index = Len(Top(t).tokens) =>
                /\ stack'[t][Depth(t)].pc = "idle"
                /\ stack'[t][Depth(t)].msg = NoMessage
      ]_vars

\* C22: membership in a subscriber list is decided by equality of whole
\* identifiers, as g_char_ptr_array_contains decides membership in a key
\* set: for every list of the catalog and identifiers a # b, _SubListContains
\* finds b only if b is in the list, so that _CatalogAdd inserts b beside a,
\* and _SubListRemove of a leaves every b in the list.
C22_MembershipByWholeIdentifier ==
    \A k \in DOMAIN subscription_lists :
        LET list == subscription_lists[k]
        IN  \A b \in Identifiers :
                /\ SubListContains(list, b) <=> b \in SeqSet(list)
                /\ SubListContains(list, b) <=> CharPtrArrayContains(list, b)
                /\ \A a \in Identifiers \ {b} :
                      Count(SubListRemove(list, a), b) = Count(list, b)

\* No catalog operation is in progress: every call has reached its return
\* and every iterator is between two calls.
Quiescent ==
    /\ ~crashed
    /\ \A t \in Threads : \A f \in Frames(t) : f.pc \in {"ret", "idle"}

\* C23: LSSubscriptionAdd and _CatalogRemoveToken behave atomically with
\* respect to each other: when no catalog operation is in progress every
\* identifier of a list is in the token map and every Subscription of the
\* token map is in the list of each of its keys, and a removal strips and
\* unindexes only the Subscription its _SubscriptionAcquire returned, never
\* one created under the same identifier since.
C23_AddAndRemoveAreAtomic ==
    [][/\ Quiescent =>
             /\ \A k \in DOMAIN subscription_lists :
                   \A i \in DOMAIN subscription_lists[k] :
                       subscription_lists[k][i] \in DOMAIN token_map
             /\ \A id \in DOMAIN token_map :
                   \A k \in SeqSet(heap[token_map[id]].keys) :
                       id \in SeqSet(ListOf(subscription_lists, k))
       /\ \A t \in Threads :
             /\ RemoveStepOf(t, "strip", "unindex")
                   /\ subscription_lists' # subscription_lists =>
                   /\ Top(t).token \in DOMAIN token_map
                   /\ token_map[Top(t).token] = Top(t).subs
             /\ RemoveStepOf(t, "unindex", "release1")
                   /\ token_map' # token_map =>
                   token_map[Top(t).token] = Top(t).subs
      ]_vars

\* C24: the cancel callback is called at most once for a Subscription's
\* message, and never once the Subscription has been taken out of the token
\* map, whatever removals of its identifier overlap.
C24_CallbackAtMostOnce ==
    [][/\ \A s \in DOMAIN heap' : heap'[s].cancelled <= 1
       /\ \A t \in Threads :
             RemoveStepOf(t, "notify", "callback") =>
                 /\ Top(t).token \in DOMAIN token_map
                 /\ token_map[Top(t).token] = Top(t).subs
      ]_vars

====
